---- MODULE Spec2Model ----
(***************************************************************************)
(* Storage subsystem of the Sender Notes add-on: NotesRepository on top    *)
(* of the IndexedDB adapter, and the MigrationRunner.                      *)
(***************************************************************************)
EXTENDS Integers, Sequences, FiniteSets, TLC

(* ------------------------------ bounds --------------------------------- *)
MaxSaves == 2       \* saveNote calls per behaviour
MaxClock == 2       \* readings of Date.now() are 1..MaxClock
MaxRuns == 3        \* runPending and rollbackLast calls per behaviour
MaxCrashes == 1     \* restarts of the add-on per behaviour

(* ------------------------------ strings -------------------------------- *)
\* A string is a sequence of characters; the alphabet has two letters in
\* both cases.
LowerOf == [c \in {"a", "A", "b", "B"} |->
              IF c = "A" THEN "a" ELSE IF c = "B" THEN "b" ELSE c]

toLowerCase(s) == [i \in 1..Len(s) |-> LowerOf[s[i]]]

startsWith(s, p) ==
    /\ Len(p) <= Len(s)
    /\ \A i \in 1..Len(p) : s[i] = p[i]

endsWith(s, p) ==
    /\ Len(p) <= Len(s)
    /\ \A i \in 1..Len(p) : s[Len(s) - Len(p) + i] = p[i]

includes(s, p) ==
    \E k \in 0..(Len(s) - Len(p)) : \A i \in 1..Len(p) : s[k + i] = p[i]

(* ------------------------------ inputs --------------------------------- *)
NoId == 0                      \* noteData without an id (undefined)
Ids == 1..MaxSaves              \* ids a save can carry or generate
NoEmail == << >>               \* originalEmail undefined or ''

Patterns == { <<"a">>, <<"A">>, <<"A", "b">> }
Emails == { <<"A", "B">>, <<"a">> }
OriginalEmails == { NoEmail, <<"A", "B">> }
MatchTypes == {"exact", "startsWith", "endsWith", "contains", "regex"}
ClockMatchTypes == {"exact", "contains"}
NoteTexts == {"VIP"}

VARIABLES notes, clock, saves, call, ret

\* MigrationRunner: the registered list, the 'migrations' object store and
\* the state of each call in progress; the rest records what happened.
VARIABLES migrations, migStore, run, registered, effect, quiet, runs, crashes

\* The ids of the applied-records in the order in which they were written.
VARIABLE written

nvars == <<notes, saves, call, ret>>
\* Templates: the record of the 'templates' object store (none or one list),
\* the repository's _defaultTemplatesProvider (null or set), the strings the
\* caller has passed so far, the last call and what it returned.
VARIABLES templates, provider, passed, tcall, tret

tvars == <<templates, provider, passed, tcall, tret>>

\* The last validatePattern call: its arguments and its result.
VARIABLE vp

\* Settings: the map of the 'settings' object store and, for each caller,
\* the getSetting or setSetting call it is in or has last made.
VARIABLES settings, scall

\* For each caller of saveNote, the call it is in when calls overlap: where
\* it stands between its awaits and what it has read and built so far.
VARIABLE saving

vvars == <<vp>>
svars == <<settings, scall>>
ovars == <<saving>>
xvars == <<tvars, vvars, svars, ovars>>
mvars == <<migrations, migStore, run, registered, effect, quiet, runs,
           crashes, written>>
vars == <<notes, clock, saves, call, ret, migrations, migStore, run,
          registered, effect, quiet, runs, crashes, written, xvars>>

(* --------------------------- IndexedDB adapter ------------------------- *)
RECURSIVE KeyOrder(_)
\* The keys of an object store in ascending key order, as a cursor and
\* getAll() deliver them.
KeyOrder(S) ==
    IF S = {} THEN << >>
    ELSE LET m == CHOOSE x \in S : \A y \in S : x <= y
         IN  <<m>> \o KeyOrder(S \ {m})

\* store.getAll() followed by Object.values(): the notes in key order.
getAllNotes(store) ==
    LET ks == KeyOrder(DOMAIN store)
    IN  [i \in 1..Len(ks) |-> store[ks[i]]]

\* store.get(id): zero or one note.
getNoteById(store, id) ==
    IF id \in DOMAIN store THEN {store[id]} ELSE {}

_validatePattern(email, pattern, matchType) ==
    LET patternLower == toLowerCase(pattern)
    IN  CASE matchType = "exact" -> email = patternLower
          [] matchType = "startsWith" -> startsWith(email, patternLower)
          [] matchType = "endsWith" -> endsWith(email, patternLower)
          [] matchType = "contains" -> includes(email, patternLower)
          [] OTHER -> FALSE

priorities == <<"exact", "startsWith", "endsWith", "contains">>

\* Variant: a pass takes the notes of every matchType.
MatchingOfType_anyType(values, emailLower, matchType) ==
    SelectSeq(values, LAMBDA note :
        _validatePattern(emailLower, note.pattern, matchType))

MatchingOfType(values, emailLower, matchType) ==
    SelectSeq(values, LAMBDA note :
        /\ note.matchType = matchType
        /\ _validatePattern(emailLower, note.pattern, matchType))

\* Variant: the matching notes in key order, without the priority passes.
findNotesByEmail_keyOrder(store, email) ==
    SelectSeq(getAllNotes(store), LAMBDA note :
        _validatePattern(toLowerCase(email), note.pattern, note.matchType))

findNotesByEmail(store, email) ==
    LET values == getAllNotes(store)
        emailLower == toLowerCase(email)
    IN  MatchingOfType(values, emailLower, priorities[1])
          \o MatchingOfType(values, emailLower, priorities[2])
          \o MatchingOfType(values, emailLower, priorities[3])
          \o MatchingOfType(values, emailLower, priorities[4])

\* Variant: the index is queried with the pattern as the caller typed it.
findDuplicate_rawPattern(store, pattern, matchType, excludeId) ==
    LET hits == {i \in DOMAIN store :
                    <<store[i].pattern, store[i].matchType>>
                        = <<pattern, matchType>>}
    IN  IF hits = {} THEN {}
        ELSE LET first == CHOOSE i \in hits : \A j \in hits : i <= j
             IN  IF first # excludeId THEN {store[first]} ELSE {}

\* index('pattern_matchType').get(key): the record with the lowest primary
\* key among those with that index key, then the excludeId test.
findDuplicate(store, pattern, matchType, excludeId) ==
    LET key == <<toLowerCase(pattern), matchType>>
        hits == {i \in DOMAIN store :
                    <<store[i].pattern, store[i].matchType>> = key}
    IN  IF hits = {} THEN {}
        ELSE LET first == CHOOSE i \in hits : \A j \in hits : i <= j
             IN  IF first # excludeId THEN {store[first]} ELSE {}

\* Variant: store.add instead of store.put, a record with the same primary
\* key makes the request fail as well.
PutViolatesUnique_add(store, note) ==
    \E i \in DOMAIN store :
        \/ i = note.id
        \/ /\ store[i].pattern = note.pattern
           /\ store[i].matchType = note.matchType

\* store.put(note) on a store whose index pattern_matchType is unique: the
\* request fails when another primary key holds the same index key.
PutViolatesUnique(store, note) ==
    \E i \in DOMAIN store :
        /\ i # note.id
        /\ store[i].pattern = note.pattern
        /\ store[i].matchType = note.matchType

adapterSaveNote(store, note) ==
    [i \in (DOMAIN store) \cup {note.id} |->
        IF i = note.id THEN note ELSE store[i]]

adapterDeleteNote(store, id) ==
    [i \in (DOMAIN store) \ {id} |-> store[i]]

(* ---------------------------- NotesRepository -------------------------- *)
\* Variant: the last element of the match list instead of the first.
findNoteByEmail_last(store, email) ==
    LET found == findNotesByEmail(store, email)
    IN  IF Len(found) > 0 THEN {found[Len(found)]} ELSE {}

findNoteByEmail(store, email) ==
    LET found == findNotesByEmail(store, email)
    IN  IF Len(found) > 0 THEN {found[1]} ELSE {}

\* Variant: the last fallback is the pattern as it is stored.
OriginalEmailOf_lower(existing, originalEmail, pattern) ==
    IF existing # {} /\ (CHOOSE e \in existing : TRUE).originalEmail # NoEmail
    THEN (CHOOSE e \in existing : TRUE).originalEmail
    ELSE IF originalEmail # NoEmail THEN originalEmail
         ELSE toLowerCase(pattern)

\* existingNote?.originalEmail || originalEmail || pattern
OriginalEmailOf(existing, originalEmail, pattern) ==
    IF existing # {} /\ (CHOOSE e \in existing : TRUE).originalEmail # NoEmail
    THEN (CHOOSE e \in existing : TRUE).originalEmail
    ELSE IF originalEmail # NoEmail THEN originalEmail ELSE pattern

\* Variant: createdAt is stamped on every save.
CreatedAtOf_now(existing, now) == now

\* existingNote?.createdAt || now
CreatedAtOf(existing, now) ==
    IF existing # {} THEN (CHOOSE e \in existing : TRUE).createdAt ELSE now

\* Variant: the pattern is stored as typed.
noteToSave_rawPattern(noteId, pattern, matchType, note, originalEmail, existing, now) ==
    [ id |-> noteId,
      pattern |-> pattern,
      matchType |-> matchType,
      note |-> note,
      originalEmail |-> OriginalEmailOf(existing, originalEmail, pattern),
      createdAt |-> CreatedAtOf(existing, now),
      updatedAt |-> now ]

noteToSave(noteId, pattern, matchType, note, originalEmail, existing, now) ==
    [ id |-> noteId,
      pattern |-> toLowerCase(pattern),
      matchType |-> matchType,
      note |-> note,
      originalEmail |-> OriginalEmailOf(existing, originalEmail, pattern),
      createdAt |-> CreatedAtOf(existing, now),
      updatedAt |-> now ]

\* The last call of a repository method and its arguments.
NoCall == [op |-> "none", id |-> NoId, pattern |-> << >>, matchType |-> "",
           note |-> "", originalEmail |-> NoEmail, email |-> << >>]

\* What the last call returned.
NoRet == [success |-> FALSE, error |-> "", noteId |-> NoId,
          existingNoteId |-> NoId, found |-> << >>, queried |-> << >>,
          existing |-> {}]

NotesInit ==
    /\ notes = << >>
    /\ clock = 1
    /\ saves = 0
    /\ call = NoCall
    /\ ret = NoRet

\* Time passes between two readings of the clock.
Tick ==
    /\ clock < MaxClock
    /\ clock' = clock + 1
    /\ UNCHANGED <<nvars, mvars, xvars>>

\* query: the pattern saveNote hands to adapter.findDuplicate; existing:
\* the note getNoteById gave it.
SaveNote(id, pattern, matchType, note, originalEmail) ==
    /\ saves < MaxSaves
    /\ saves' = saves + 1
    /\ call' = [NoCall EXCEPT !.op = "saveNote", !.id = id,
                  !.pattern = pattern, !.matchType = matchType,
                  !.note = note, !.originalEmail = originalEmail]
    /\ UNCHANGED <<clock, mvars, xvars>>
    /\ LET query == pattern
           duplicate == findDuplicate(notes, query, matchType, id)
       IN  IF duplicate # {}
           THEN /\ ret' = [NoRet EXCEPT !.error = "duplicate",
                             !.queried = query,
                             !.existingNoteId =
                                (CHOOSE d \in duplicate : TRUE).id]
                /\ UNCHANGED notes
           ELSE \E generated \in Ids :
                /\ id = NoId => generated \notin DOMAIN notes
                /\ id # NoId => generated = id
                /\ LET existing == IF id # NoId THEN getNoteById(notes, id)
                                   ELSE {}
                       now == clock
                       noteId == IF id # NoId THEN id ELSE generated
                       toSave == noteToSave(noteId, pattern, matchType, note,
                                            originalEmail, existing, now)
                   IN  IF PutViolatesUnique(notes, toSave)
                       THEN /\ ret' = [NoRet EXCEPT !.error = "rejected",
                                         !.queried = query,
                                         !.existing = existing]
                            /\ UNCHANGED notes
                       ELSE /\ notes' = adapterSaveNote(notes, toSave)
                            /\ ret' = [NoRet EXCEPT !.success = TRUE,
                                         !.noteId = noteId,
                                         !.queried = query,
                                         !.existing = existing]

DeleteNote(id) ==
    /\ call' = [NoCall EXCEPT !.op = "deleteNote", !.id = id]
    /\ notes' = adapterDeleteNote(notes, id)
    /\ ret' = [NoRet EXCEPT !.success = TRUE]
    /\ UNCHANGED <<clock, saves, mvars, xvars>>

DeleteNoteByEmail(email) ==
    /\ call' = [NoCall EXCEPT !.op = "deleteNoteByEmail", !.email = email]
    /\ LET note == findNoteByEmail(notes, email)
       IN  IF note # {}
           THEN notes' = adapterDeleteNote(notes,
                            (CHOOSE n \in note : TRUE).id)
           ELSE UNCHANGED notes
    /\ ret' = [NoRet EXCEPT !.success = TRUE]
    /\ UNCHANGED <<clock, saves, mvars, xvars>>

FindNotesByEmail(email) ==
    /\ call' = [NoCall EXCEPT !.op = "findNotesByEmail", !.email = email]
    /\ ret' = [NoRet EXCEPT !.success = TRUE,
                 !.found = findNotesByEmail(notes, email)]
    /\ UNCHANGED <<notes, clock, saves, mvars, xvars>>

FindNoteByEmail(email) ==
    /\ call' = [NoCall EXCEPT !.op = "findNoteByEmail", !.email = email]
    /\ LET note == findNoteByEmail(notes, email)
       IN  ret' = [NoRet EXCEPT !.success = TRUE,
                     !.found = IF note # {}
                               THEN <<CHOOSE n \in note : TRUE>> ELSE << >>]
    /\ UNCHANGED <<notes, clock, saves, mvars, xvars>>

\* Calls made within one reading of the clock.
NotesNext ==
    \/ \E id \in Ids \cup {NoId}, pattern \in Patterns,
          matchType \in MatchTypes, note \in NoteTexts,
          originalEmail \in OriginalEmails :
            SaveNote(id, pattern, matchType, note, originalEmail)
    \/ \E id \in Ids : DeleteNote(id)
    \/ \E email \in Emails : DeleteNoteByEmail(email)
    \/ \E email \in Emails : FindNotesByEmail(email)
    \/ \E email \in Emails : FindNoteByEmail(email)

\* Saves and deletes as time passes, for two of the match types.
NotesClockNext ==
    \/ Tick
    \/ \E id \in Ids \cup {NoId}, pattern \in Patterns,
          matchType \in ClockMatchTypes, note \in NoteTexts,
          originalEmail \in OriginalEmails :
            SaveNote(id, pattern, matchType, note, originalEmail)
    \/ \E id \in Ids : DeleteNote(id)
    \/ \E email \in Emails : DeleteNoteByEmail(email)



(* ---------------------------- MigrationRunner -------------------------- *)
\* Migration definitions: the id is the zero-padded sequence number of
\* "NNN_description" as a string of digits; the third has no down.
MIGRATIONS ==
    { [id |-> <<0, 1>>, down |-> TRUE],
      [id |-> <<0, 2>>, down |-> TRUE],
      [id |-> <<1, 0>>, down |-> FALSE] }

MigIds == {m.id : m \in MIGRATIONS}
Runners == {1, 2}
SeqRunners == {1}              \* the calls of a sequential caller
NoMigration == << >>

\* a.localeCompare(b) on strings of digits: negative, zero or positive.
localeCompare(a, b) ==
    LET n == IF Len(a) < Len(b) THEN Len(a) ELSE Len(b)
        diffs == {i \in 1..n : a[i] # b[i]}
    IN  IF diffs = {}
        THEN (IF Len(a) < Len(b) THEN -1 ELSE IF Len(a) > Len(b) THEN 1
              ELSE 0)
        ELSE LET k == CHOOSE i \in diffs : \A j \in diffs : i <= j
             IN  IF a[k] < b[k] THEN -1 ELSE 1

\* Array.prototype.sort (stable) applied to a sorted list with one element
\* pushed at its end: the element moves in front of the greater ones.
InsertSorted(list, m) ==
    LET before == SelectSeq(list, LAMBDA e : localeCompare(e.id, m.id) <= 0)
        after == SelectSeq(list, LAMBDA e : localeCompare(e.id, m.id) > 0)
    IN  before \o <<m>> \o after

\* Variant: push without the sort.
register_noSort(list, m) == Append(list, m)

register(list, m) == InsertSorted(list, m)

RECURSIVE IdOrder(_)
\* The keys of the 'migrations' store in ascending key order.
IdOrder(S) ==
    IF S = {} THEN << >>
    ELSE LET m == CHOOSE x \in S : \A y \in S : localeCompare(x, y) <= 0
         IN  <<m>> \o IdOrder(S \ {m})

\* store.getAll(): the applied-records in key order.
getAppliedMigrations(store) ==
    LET ks == IdOrder(DOMAIN store)
    IN  [i \in 1..Len(ks) |-> store[ks[i]]]

isApplied(store, migrationId) == migrationId \in DOMAIN store

\* store.put({id, description, appliedAt}).
markAsApplied(store, migrationId, now) ==
    [k \in (DOMAIN store) \cup {migrationId} |->
        IF k = migrationId THEN [id |-> migrationId, appliedAt |-> now]
        ELSE store[k]]

\* Variant: the applied-record is left in the store.
markAsNotApplied_keep(store, migrationId) == store

\* store.delete(migrationId).
markAsNotApplied(store, migrationId) ==
    [k \in (DOMAIN store) \ {migrationId} |-> store[k]]

\* Variant: the applied-records are not consulted.
getPendingMigrations_all(list, store) == list

getPendingMigrations(list, store) ==
    LET applied == getAppliedMigrations(store)
        appliedIds == {applied[i].id : i \in 1..Len(applied)}
    IN  SelectSeq(list, LAMBDA m : m.id \notin appliedIds)

Idle == [pc |-> "idle", op |-> "none", pending |-> << >>, idx |-> 0,
         applied |-> << >>, errors |-> << >>, target |-> NoMigration,
         success |-> FALSE, rolledBack |-> NoMigration, error |-> "",
         upOrder |-> << >>, failedAt |-> "", startedQuiet |-> FALSE,
         startApplied |-> {}, startList |-> << >>, startStore |-> << >>,
         downCalled |-> FALSE, prevRolledBack |-> NoMigration,
         prevApplied |-> {}]

MigInit ==
    /\ migrations = << >>
    /\ migStore = << >>
    /\ written = << >>
    /\ run = [r \in Runners |-> Idle]
    /\ registered = << >>
    /\ effect = [m \in MigIds |-> 0]
    /\ quiet = FALSE
    /\ runs = 0
    /\ crashes = 0

(* ----------------------------- templates ------------------------------- *)
MaxTemplates == 3   \* addTemplate does not grow a list beyond this length

\* The list the default-templates provider returns, and the strings and
\* indexes callers pass.
DefaultTemplates == <<"Thanks!", "Noted.">>
TemplateTexts == {"Thanks!", "Hi"}
Indexes == -1..MaxTemplates

\* IndexedDBAdapter.getTemplates: request.result?.templates || []
adapterGetTemplates(store) ==
    IF store = {} THEN << >> ELSE CHOOSE list \in store : TRUE

\* IndexedDBAdapter.saveTemplates: store.put({ id: 'default', templates })
adapterSaveTemplates(list) == {list}

\* NotesRepository.getTemplates: the provider's list when the persisted one
\* is empty and a provider is set.
getTemplates(store, prov) ==
    LET list == adapterGetTemplates(store)
    IN  IF Len(list) = 0 /\ prov # {}
        THEN CHOOSE defaults \in prov : TRUE
        ELSE list

\* templates.includes(template)
arrayIncludes(list, x) == \E i \in 1..Len(list) : list[i] = x

\* Variant: the last element is removed, whatever the index.
splice_last(list, index) == [i \in 1..(Len(list) - 1) |-> list[i]]

\* templates.splice(index, 1) for an index in range (counted from 0)
splice(list, index) ==
    [i \in 1..(Len(list) - 1) |-> IF i <= index THEN list[i] ELSE list[i + 1]]

InRange_inclusive(index, list) == index >= 0 /\ index <= Len(list)

\* index >= 0 && index < templates.length
InRange(index, list) == index >= 0 /\ index < Len(list)

NoTCall == [op |-> "none", template |-> "", index |-> 0]
\* current: what getTemplates gave the call; persisted: the store before it;
\* wrote: adapter.saveTemplates was called.
NoTRet == [success |-> FALSE, templates |-> << >>, wrote |-> FALSE,
           current |-> << >>, persisted |-> {}]

TemplatesInit ==
    /\ templates = {}
    /\ provider = {}
    /\ passed = {}
    /\ tcall = NoTCall
    /\ tret = NoTRet

SetDefaultTemplatesProvider ==
    /\ provider' = {DefaultTemplates}
    /\ tcall' = [NoTCall EXCEPT !.op = "setDefaultTemplatesProvider"]
    /\ tret' = NoTRet
    /\ UNCHANGED <<templates, passed, nvars, clock, mvars, vvars, svars,
                   ovars>>

GetTemplates ==
    LET current == getTemplates(templates, provider)
    IN  /\ tcall' = [NoTCall EXCEPT !.op = "getTemplates"]
        /\ tret' = [NoTRet EXCEPT !.success = TRUE, !.templates = current,
                       !.current = current, !.persisted = templates]
        /\ UNCHANGED <<templates, provider, passed, nvars, clock, mvars,
                       vvars, svars, ovars>>

AddTemplate(template) ==
    LET current == getTemplates(templates, provider)
    IN  /\ arrayIncludes(current, template) \/ Len(current) < MaxTemplates
        /\ tcall' = [NoTCall EXCEPT !.op = "addTemplate",
                        !.template = template]
        /\ passed' = passed \cup {template}
        /\ IF ~arrayIncludes(current, template)
           THEN /\ templates' = adapterSaveTemplates(Append(current, template))
                /\ tret' = [NoTRet EXCEPT !.success = TRUE,
                               !.templates = Append(current, template),
                               !.wrote = TRUE, !.current = current,
                               !.persisted = templates]
           ELSE /\ tret' = [NoTRet EXCEPT !.success = TRUE,
                               !.templates = current, !.current = current,
                               !.persisted = templates]
                /\ UNCHANGED templates
        /\ UNCHANGED <<provider, nvars, clock, mvars, vvars, svars, ovars>>

UpdateTemplate(index, newText) ==
    LET current == getTemplates(templates, provider)
        updated == [current EXCEPT ![index + 1] = newText]
    IN  /\ tcall' = [NoTCall EXCEPT !.op = "updateTemplate",
                        !.template = newText, !.index = index]
        /\ passed' = passed \cup {newText}
        /\ IF InRange(index, current)
           THEN /\ templates' = adapterSaveTemplates(updated)
                /\ tret' = [NoTRet EXCEPT !.success = TRUE,
                               !.templates = updated, !.wrote = TRUE,
                               !.current = current, !.persisted = templates]
           ELSE /\ tret' = [NoTRet EXCEPT !.success = TRUE,
                               !.templates = current, !.current = current,
                               !.persisted = templates]
                /\ UNCHANGED templates
        /\ UNCHANGED <<provider, nvars, clock, mvars, vvars, svars, ovars>>

DeleteTemplate(index) ==
    LET current == getTemplates(templates, provider)
        remaining == splice(current, index)
    IN  /\ tcall' = [NoTCall EXCEPT !.op = "deleteTemplate",
                        !.index = index]
        /\ IF InRange(index, current)
           THEN /\ templates' = adapterSaveTemplates(remaining)
                /\ tret' = [NoTRet EXCEPT !.success = TRUE,
                               !.templates = remaining, !.wrote = TRUE,
                               !.current = current, !.persisted = templates]
           ELSE /\ tret' = [NoTRet EXCEPT !.success = TRUE,
                               !.templates = current, !.current = current,
                               !.persisted = templates]
                /\ UNCHANGED templates
        /\ UNCHANGED <<provider, passed, nvars, clock, mvars, vvars, svars,
                       ovars>>

TemplatesNext ==
    \/ SetDefaultTemplatesProvider
    \/ GetTemplates
    \/ \E template \in TemplateTexts : AddTemplate(template)
    \/ \E index \in Indexes, newText \in TemplateTexts :
          UpdateTemplate(index, newText)
    \/ \E index \in Indexes : DeleteTemplate(index)

(* --------------------------- validatePattern --------------------------- *)
MaxLen == 2         \* length of the strings given to validatePattern

Chars == {"a", "A", "b", "B"}
Strings == UNION {[1..n -> Chars] : n \in 0..MaxLen}

validatePattern_rawEmail(email, pattern, matchType) ==
    LET patternLower == toLowerCase(pattern)
    IN  CASE matchType = "exact" -> email = patternLower
          [] matchType = "startsWith" -> startsWith(email, patternLower)
          [] matchType = "endsWith" -> endsWith(email, patternLower)
          [] matchType = "contains" -> includes(email, patternLower)
          [] OTHER -> FALSE

\* NotesRepository.validatePattern
validatePattern(email, pattern, matchType) ==
    LET emailLower == toLowerCase(email)
        patternLower == toLowerCase(pattern)
    IN  CASE matchType = "exact" -> emailLower = patternLower
          [] matchType = "startsWith" -> startsWith(emailLower, patternLower)
          [] matchType = "endsWith" -> endsWith(emailLower, patternLower)
          [] matchType = "contains" -> includes(emailLower, patternLower)
          [] OTHER -> FALSE

NoVp == [email |-> << >>, pattern |-> << >>, matchType |-> "none",
         result |-> FALSE]

ValidateInit == vp = NoVp

\* One call of validatePattern per behaviour.
ValidatePattern(email, pattern, matchType) ==
    /\ vp = NoVp
    /\ vp' = [email |-> email, pattern |-> pattern, matchType |-> matchType,
              result |-> validatePattern(email, pattern, matchType)]
    /\ UNCHANGED <<nvars, clock, mvars, tvars, svars, ovars>>

ValidateNext ==
    \E email \in Strings, pattern \in Strings, matchType \in MatchTypes :
        ValidatePattern(email, pattern, matchType)

(* ------------------------------ settings ------------------------------- *)
Keys == {"k1", "k2"}
Values == {"on", "off", "auto"}
DefaultValues == {"on", "dflt"}
SettingCallers == {1, 2}
SeqSettingCallers == {1}

\* The object {} : a map without keys.
NoSettings == [k \in {} |-> ""]

\* IndexedDBAdapter.getSettings: request.result?.settings || {}
adapterGetSettings(store) ==
    IF store = {} THEN NoSettings ELSE CHOOSE map \in store : TRUE

\* IndexedDBAdapter.saveSettings: store.put({ id: 'default', settings })
adapterSaveSettings(map) == {map}

withSetting_fresh(map, key, value) == [k \in {key} |-> value]

\* settings[key] = value
withSetting(map, key, value) ==
    [k \in DOMAIN map \cup {key} |-> IF k = key THEN value ELSE map[k]]

\* settings[key] !== undefined ? settings[key] : defaultValue
settingOr(map, key, defaultValue) ==
    IF key \in DOMAIN map THEN map[key] ELSE defaultValue

SIdle == [pc |-> "idle", op |-> "none", key |-> "", value |-> "",
          local |-> NoSettings, before |-> NoSettings, result |-> "",
          success |-> FALSE]

SettingsInit ==
    /\ settings = {}
    /\ scall = [c \in SettingCallers |-> SIdle]

SReturned(c) == scall[c].pc \in {"idle", "done"}
NoSettingActive == \A c \in SettingCallers : SReturned(c)

\* getSetting: one read of the map.
GetSettingCall(c, key, defaultValue) ==
    LET map == adapterGetSettings(settings)
    IN  /\ SReturned(c)
        /\ scall' = [scall EXCEPT ![c] =
              [SIdle EXCEPT !.pc = "done", !.op = "getSetting", !.key = key,
                  !.value = defaultValue, !.before = map,
                  !.result = settingOr(map, key, defaultValue)]]
        /\ UNCHANGED <<settings, nvars, clock, mvars, tvars, vvars, ovars>>

\* setSetting up to the call of saveSettings: the map is read and the key
\* is set in the object read.
SetSettingRead(c, key, value) ==
    LET map == adapterGetSettings(settings)
    IN  /\ SReturned(c)
        /\ scall' = [scall EXCEPT ![c] =
              [SIdle EXCEPT !.pc = "write", !.op = "setSetting",
                  !.key = key, !.value = value, !.before = map,
                  !.local = withSetting(map, key, value)]]
        /\ UNCHANGED <<settings, nvars, clock, mvars, tvars, vvars, ovars>>

SetSettingWrite_merge(c) ==
    /\ scall[c].pc = "write"
    /\ settings' = adapterSaveSettings(withSetting(
                       adapterGetSettings(settings), scall[c].key,
                       scall[c].value))
    /\ scall' = [scall EXCEPT ![c].pc = "done", ![c].success = TRUE]
    /\ UNCHANGED <<nvars, clock, mvars, tvars, vvars, ovars>>

\* saveSettings writes the object and setSetting returns {success: true}.
SetSettingWrite(c) ==
    /\ scall[c].pc = "write"
    /\ settings' = adapterSaveSettings(scall[c].local)
    /\ scall' = [scall EXCEPT ![c].pc = "done", ![c].success = TRUE]
    /\ UNCHANGED <<nvars, clock, mvars, tvars, vvars, ovars>>

\* getSetting and setSetting called while no other settings call is in
\* progress.
GetSetting(c, key, defaultValue) ==
    NoSettingActive /\ GetSettingCall(c, key, defaultValue)
SetSetting(c, key, value) == NoSettingActive /\ SetSettingRead(c, key, value)

SettingsNext ==
    \/ \E c \in SeqSettingCallers, key \in Keys, d \in DefaultValues :
          GetSetting(c, key, d)
    \/ \E c \in SeqSettingCallers, key \in Keys, value \in Values :
          SetSetting(c, key, value)
    \/ \E c \in SeqSettingCallers : SetSettingWrite(c)

\* getSetting and setSetting calls of two callers, interleaved at their
\* awaits.
SettingsOverlapNext ==
    \/ \E c \in SettingCallers, key \in Keys, d \in DefaultValues :
          GetSettingCall(c, key, d)
    \/ \E c \in SettingCallers, key \in Keys, value \in Values :
          SetSettingRead(c, key, value)
    \/ \E c \in SettingCallers : SetSettingWrite(c)

(* ------------------------ overlapping saveNote ------------------------- *)
SaveCallers == {1, 2}
OverlapPatterns == { <<"a">>, <<"A">> }

NoNote == [id |-> NoId, pattern |-> << >>, matchType |-> "", note |-> "",
           originalEmail |-> NoEmail, createdAt |-> 0, updatedAt |-> 0]

\* passed: findDuplicate returned null; issued: adapter.saveNote was called.
NotSaving == [pc |-> "idle", id |-> NoId, pattern |-> << >>,
              matchType |-> "", note |-> "", originalEmail |-> NoEmail,
              passed |-> FALSE, issued |-> FALSE, toSave |-> NoNote,
              success |-> FALSE, error |-> ""]

SavingInit == saving = [c \in SaveCallers |-> NotSaving]

\* The ids that calls in progress have generated.
IdsInFlight == {saving[c].toSave.id : c \in SaveCallers}

\* saveNote to the resolution of findDuplicate; without an id the note is
\* built in the same turn.
SaveNoteCheck(c, id, pattern, matchType, note, originalEmail) ==
    /\ saving[c].pc \in {"idle", "done"}
    /\ saves < MaxSaves
    /\ saves' = saves + 1
    /\ LET args == [NotSaving EXCEPT !.id = id, !.pattern = pattern,
                       !.matchType = matchType, !.note = note,
                       !.originalEmail = originalEmail]
           duplicate == findDuplicate(notes, pattern, matchType, id)
       IN  IF duplicate # {}
           THEN saving' = [saving EXCEPT ![c] =
                    [args EXCEPT !.pc = "done", !.error = "duplicate"]]
           ELSE IF id # NoId
           THEN saving' = [saving EXCEPT ![c] =
                    [args EXCEPT !.pc = "fetch", !.passed = TRUE]]
           ELSE \E generated \in Ids \ (DOMAIN notes \cup IdsInFlight) :
                    saving' = [saving EXCEPT ![c] =
                        [args EXCEPT !.pc = "write", !.passed = TRUE,
                            !.toSave = noteToSave(generated, pattern,
                                matchType, note, originalEmail, {}, clock)]]
    /\ UNCHANGED <<notes, call, ret, clock, mvars, tvars, vvars, svars>>

\* getNoteById resolves and the note is built.
SaveNoteFetch(c) ==
    /\ saving[c].pc = "fetch"
    /\ LET existing == getNoteById(notes, saving[c].id)
       IN  saving' = [saving EXCEPT ![c].pc = "write",
                        ![c].toSave = noteToSave(saving[c].id,
                            saving[c].pattern, saving[c].matchType,
                            saving[c].note, saving[c].originalEmail,
                            existing, clock)]
    /\ UNCHANGED <<notes, saves, call, ret, clock, mvars, tvars, vvars,
                   svars>>

SaveNoteWrite_recheck(c) ==
    /\ saving[c].pc = "write"
    /\ IF \/ findDuplicate(notes, saving[c].pattern, saving[c].matchType,
                            saving[c].id) # {}
          \/ PutViolatesUnique(notes, saving[c].toSave)
       THEN /\ saving' = [saving EXCEPT ![c].pc = "done",
                             ![c].error = "duplicate"]
            /\ UNCHANGED notes
       ELSE /\ notes' = adapterSaveNote(notes, saving[c].toSave)
            /\ saving' = [saving EXCEPT ![c].pc = "done",
                             ![c].issued = TRUE, ![c].success = TRUE]
    /\ UNCHANGED <<saves, call, ret, clock, mvars, tvars, vvars, svars>>

\* adapter.saveNote: the put is made, or rejected by the unique index.
SaveNoteWrite(c) ==
    /\ saving[c].pc = "write"
    /\ IF PutViolatesUnique(notes, saving[c].toSave)
       THEN /\ saving' = [saving EXCEPT ![c].pc = "done",
                             ![c].issued = TRUE, ![c].error = "rejected"]
            /\ UNCHANGED notes
       ELSE /\ notes' = adapterSaveNote(notes, saving[c].toSave)
            /\ saving' = [saving EXCEPT ![c].pc = "done",
                             ![c].issued = TRUE, ![c].success = TRUE]
    /\ UNCHANGED <<saves, call, ret, clock, mvars, tvars, vvars, svars>>

\* saveNote calls of two callers, interleaved at their awaits.
NotesOverlapNext ==
    \/ \E c \in SaveCallers, id \in Ids \cup {NoId},
          pattern \in OverlapPatterns, matchType \in ClockMatchTypes,
          note \in NoteTexts :
            SaveNoteCheck(c, id, pattern, matchType, note, NoEmail)
    \/ \E c \in SaveCallers : SaveNoteFetch(c)
    \/ \E c \in SaveCallers : SaveNoteWrite(c)

Init ==
    /\ NotesInit /\ MigInit /\ TemplatesInit /\ ValidateInit /\ SettingsInit
    /\ SavingInit

Returned(r) == run[r].pc \in {"idle", "done"}

\* No call of the runner is in progress.
NoneActive == \A r \in Runners : Returned(r)

RegisteredIds == {migrations[i].id : i \in 1..Len(migrations)}

Register(m) ==
    /\ m.id \notin RegisteredIds
    /\ migrations' = register(migrations, m)
    /\ registered' = Append(registered, m.id)
    /\ quiet' = FALSE
    /\ UNCHANGED <<migStore, written, run, effect, runs, crashes, nvars,
                   clock, xvars>>

\* The migration whose up, or record, call r is at.
Current(r) == run[r].pending[run[r].idx]

\* runPending up to the first await inside the loop: the pending list is
\* computed and the first up is invoked, or the empty summary is returned.
RunPendingStart(r) ==
    /\ Returned(r)
    /\ runs < MaxRuns
    /\ runs' = runs + 1
    /\ LET pending == getPendingMigrations(migrations, migStore)
       IN  run' = [run EXCEPT ![r] =
                [Idle EXCEPT !.op = "runPending",
                    !.pending = pending,
                    !.idx = IF pending = << >> THEN 0 ELSE 1,
                    !.pc = IF pending = << >> THEN "done" ELSE "up",
                    !.success = (pending = << >>),
                    !.upOrder = IF pending = << >> THEN << >>
                                ELSE <<pending[1].id>>,
                    !.startedQuiet = quiet,
                    !.startApplied = DOMAIN migStore,
                    !.startList = migrations,
                    !.prevRolledBack =
                        IF run[r].op = "rollbackLast" /\ run[r].success
                        THEN run[r].rolledBack ELSE NoMigration,
                    !.prevApplied =
                        IF run[r].op = "rollbackLast" /\ run[r].success
                        THEN DOMAIN run[r].startStore ELSE {}]]
    /\ quiet' = (getPendingMigrations(migrations, migStore) = << >>)
    /\ UNCHANGED <<migrations, migStore, written, registered, effect, crashes,
                   nvars, clock, xvars>>

\* migration.up(adapter) resolves.
UpReturns(r) ==
    /\ run[r].pc = "up"
    /\ effect' = [effect EXCEPT ![Current(r).id] = @ + 1]
    /\ run' = [run EXCEPT ![r].pc = "mark"]
    /\ UNCHANGED <<migrations, migStore, written, registered, quiet, runs,
                   crashes, nvars, clock, xvars>>

\* Variant of the catch block: no break, the loop goes on to the next
\* pending migration.
Caught_continue(r, stage) ==
    /\ quiet' = FALSE
    /\ IF run[r].idx < Len(run[r].pending)
       THEN run' = [run EXCEPT ![r].errors =
                        Append(@, [id |-> Current(r).id]),
                      ![r].failedAt = stage,
                      ![r].idx = @ + 1,
                      ![r].upOrder =
                          Append(@, run[r].pending[run[r].idx + 1].id),
                      ![r].pc = "up"]
       ELSE run' = [run EXCEPT ![r].errors =
                        Append(@, [id |-> Current(r).id]),
                      ![r].failedAt = stage,
                      ![r].success = FALSE,
                      ![r].pc = "done"]

\* catch (error): the error is recorded, the loop is left and the summary is
\* returned.
Caught(r, stage) ==
    /\ quiet' = FALSE
    /\ run' = [run EXCEPT ![r].errors = Append(@, [id |-> Current(r).id]),
                 ![r].failedAt = stage,
                 ![r].success = FALSE,
                 ![r].pc = "done"]

\* migration.up(adapter) throws or rejects.
UpThrows(r) ==
    /\ run[r].pc = "up"
    /\ Caught(r, "up")
    /\ UNCHANGED <<migrations, migStore, written, registered, effect, runs,
                   crashes, nvars, clock, xvars>>

\* markAsApplied resolves; the loop invokes the next up or returns.
MarkAsApplied(r) ==
    /\ run[r].pc = "mark"
    /\ migStore' = markAsApplied(migStore, Current(r).id, clock)
    /\ written' = Append(SelectSeq(written,
                                   LAMBDA id : id # Current(r).id),
                         Current(r).id)
    /\ IF run[r].idx < Len(run[r].pending)
       THEN /\ run' = [run EXCEPT ![r].applied = Append(@, Current(r).id),
                         ![r].idx = @ + 1,
                         ![r].upOrder =
                             Append(@, run[r].pending[run[r].idx + 1].id),
                         ![r].pc = "up"]
            /\ UNCHANGED quiet
       ELSE /\ run' = [run EXCEPT ![r].applied = Append(@, Current(r).id),
                         ![r].success = TRUE,
                         ![r].pc = "done"]
            /\ quiet' = (run[r].startList = migrations)
    /\ UNCHANGED <<migrations, registered, effect, runs, crashes, nvars,
                   clock, xvars>>

\* The put of the applied-record fails: markAsApplied rejects.
MarkAsAppliedFails(r) ==
    /\ run[r].pc = "mark"
    /\ Caught(r, "mark")
    /\ UNCHANGED <<migrations, migStore, written, registered, effect, runs,
                   crashes, nvars, clock, xvars>>

\* applied.sort((a, b) => b.appliedAt.localeCompare(a.appliedAt))[0]: the
\* first record, in key order, among those with the greatest appliedAt.
LastApplied(store) ==
    LET applied == getAppliedMigrations(store)
        latest == {i \in 1..Len(applied) :
                      \A j \in 1..Len(applied) :
                          applied[j].appliedAt <= applied[i].appliedAt}
    IN  applied[CHOOSE i \in latest : \A j \in latest : i <= j]

\* this.migrations.find(m => m.id === id): zero or one definition.
FindMigration(list, id) ==
    LET hits == {i \in 1..Len(list) : list[i].id = id}
    IN  IF hits = {} THEN {}
        ELSE {list[CHOOSE i \in hits : \A j \in hits : i <= j]}

RollbackLastEmpty_throws(r) ==
    run' = [run EXCEPT ![r] =
        [Idle EXCEPT !.op = "rollbackLast", !.pc = "done",
            !.error = "thrown", !.startStore = migStore]]

\* if (applied.length === 0) return { success: true, rolledBack: null }
RollbackLastEmpty(r) ==
    run' = [run EXCEPT ![r] =
        [Idle EXCEPT !.op = "rollbackLast", !.pc = "done",
            !.success = TRUE, !.startStore = migStore]]

\* rollbackLast up to the call of down, or to one of its early returns.
RollbackLastStart(r) ==
    /\ Returned(r)
    /\ runs < MaxRuns
    /\ runs' = runs + 1
    /\ quiet' = FALSE
    /\ IF DOMAIN migStore = {}
       THEN RollbackLastEmpty(r)
       ELSE LET lastApplied == LastApplied(migStore)
                migration == FindMigration(migrations, lastApplied.id)
            IN  IF migration = {}
                THEN run' = [run EXCEPT ![r] =
                        [Idle EXCEPT !.op = "rollbackLast", !.pc = "done",
                            !.target = lastApplied.id,
                            !.error = "not found",
                            !.startStore = migStore]]
                ELSE IF ~(CHOOSE m \in migration : TRUE).down
                THEN run' = [run EXCEPT ![r] =
                        [Idle EXCEPT !.op = "rollbackLast", !.pc = "done",
                            !.target = lastApplied.id,
                            !.error = "no rollback function",
                            !.startStore = migStore]]
                ELSE run' = [run EXCEPT ![r] =
                        [Idle EXCEPT !.op = "rollbackLast", !.pc = "down",
                            !.target = lastApplied.id,
                            !.startStore = migStore,
                            !.downCalled = TRUE]]
    /\ UNCHANGED <<migrations, migStore, written, registered, effect,
                   crashes, nvars, clock, xvars>>

\* migration.down(adapter) resolves: the effect of up is undone.
DownReturns(r) ==
    /\ run[r].pc = "down"
    /\ effect' = [effect EXCEPT ![run[r].target] = 0]
    /\ run' = [run EXCEPT ![r].pc = "unmark"]
    /\ UNCHANGED <<migrations, migStore, written, registered, quiet, runs,
                   crashes, nvars, clock, xvars>>

DownThrows_unmark(r) ==
    /\ run[r].pc = "down"
    /\ migStore' = markAsNotApplied(migStore, run[r].target)
    /\ written' = SelectSeq(written, LAMBDA id : id # run[r].target)
    /\ run' = [run EXCEPT ![r].pc = "done", ![r].failedAt = "down",
                 ![r].error = "thrown"]
    /\ UNCHANGED <<migrations, registered, effect, quiet, runs, crashes,
                   nvars, clock, xvars>>

\* migration.down(adapter) throws or rejects.
DownThrows(r) ==
    /\ run[r].pc = "down"
    /\ run' = [run EXCEPT ![r].pc = "done", ![r].failedAt = "down",
                 ![r].error = "thrown"]
    /\ UNCHANGED <<migrations, migStore, written, registered, effect, quiet,
                   runs, crashes, nvars, clock, xvars>>

\* markAsNotApplied resolves and rollbackLast returns the id.
MarkAsNotApplied(r) ==
    /\ run[r].pc = "unmark"
    /\ migStore' = markAsNotApplied(migStore, run[r].target)
    /\ written' = SelectSeq(written, LAMBDA id : id # run[r].target)
    /\ run' = [run EXCEPT ![r].pc = "done", ![r].success = TRUE,
                 ![r].rolledBack = run[r].target]
    /\ UNCHANGED <<migrations, registered, effect, quiet, runs, crashes,
                   nvars, clock, xvars>>

\* The delete of the applied-record fails: markAsNotApplied rejects.
MarkAsNotAppliedFails(r) ==
    /\ run[r].pc = "unmark"
    /\ run' = [run EXCEPT ![r].pc = "done", ![r].failedAt = "unmark",
                 ![r].error = "thrown"]
    /\ UNCHANGED <<migrations, migStore, written, registered, effect, quiet,
                   runs, crashes, nvars, clock, xvars>>

\* The add-on stops at any point and starts again: what is in memory is
\* lost, the object stores stay.
Crash ==
    /\ crashes < MaxCrashes
    /\ crashes' = crashes + 1
    /\ migrations' = << >>
    /\ registered' = << >>
    /\ run' = [r \in Runners |-> Idle]
    /\ quiet' = FALSE
    /\ UNCHANGED <<migStore, written, effect, runs, nvars, clock, xvars>>

\* runPending and rollbackLast called while no other call is in progress.
RunPending(r) == NoneActive /\ RunPendingStart(r)

RollbackLast(r) == NoneActive /\ RollbackLastStart(r)

\* One call of the runner at a time, as at start-up.
MigNext ==
    \/ Tick
    \/ \E m \in MIGRATIONS : Register(m)
    \/ \E r \in SeqRunners : RunPending(r)
    \/ \E r \in SeqRunners : UpReturns(r)
    \/ \E r \in SeqRunners : UpThrows(r)
    \/ \E r \in SeqRunners : MarkAsApplied(r)
    \/ \E r \in SeqRunners : MarkAsAppliedFails(r)
    \/ \E r \in SeqRunners : RollbackLast(r)
    \/ \E r \in SeqRunners : DownReturns(r)
    \/ \E r \in SeqRunners : DownThrows(r)
    \/ \E r \in SeqRunners : MarkAsNotApplied(r)
    \/ \E r \in SeqRunners : MarkAsNotAppliedFails(r)
    \/ Crash

\* register is called for every migration before the first run, as at
\* start-up.
RegisterFirst(m) == runs = 0 /\ Register(m)

\* One call of the runner at a time over a fixed list of migrations.
MigFixedNext ==
    \/ Tick
    \/ \E m \in MIGRATIONS : RegisterFirst(m)
    \/ \E r \in SeqRunners : RunPending(r)
    \/ \E r \in SeqRunners : UpReturns(r)
    \/ \E r \in SeqRunners : UpThrows(r)
    \/ \E r \in SeqRunners : MarkAsApplied(r)
    \/ \E r \in SeqRunners : RollbackLast(r)
    \/ \E r \in SeqRunners : DownReturns(r)
    \/ \E r \in SeqRunners : DownThrows(r)
    \/ \E r \in SeqRunners : MarkAsNotApplied(r)

\* runPending calls of two callers over a fixed list of migrations,
\* interleaved at their awaits; no up throws and no write fails.
MigOverlapNext ==
    \/ \E m \in MIGRATIONS : RegisterFirst(m)
    \/ \E r \in Runners : RunPendingStart(r)
    \/ \E r \in Runners : UpReturns(r)
    \/ \E r \in Runners : MarkAsApplied(r)

NotesSpec == Init /\ [][NotesNext]_vars

NotesClockSpec == Init /\ [][NotesClockNext]_vars

MigSpec == Init /\ [][MigNext]_vars

MigFixedSpec == Init /\ [][MigFixedNext]_vars

MigOverlapSpec == Init /\ [][MigOverlapNext]_vars

TemplatesSpec == Init /\ [][TemplatesNext]_vars

ValidateSpec == Init /\ [][ValidateNext]_vars

SettingsSpec == Init /\ [][SettingsNext]_vars

SettingsOverlapSpec == Init /\ [][SettingsOverlapNext]_vars

NotesOverlapSpec == Init /\ [][NotesOverlapNext]_vars

(* ========================= properties: notes =========================== *)
\* The notes of `store` other than `id` that share the (pattern ignoring
\* case, matchType) pair of a save request.
SameKeyOthers(store, id, pattern, matchType) ==
    {i \in DOMAIN store :
        /\ i # id
        /\ store[i].matchType = matchType
        /\ toLowerCase(store[i].pattern) = toLowerCase(pattern)}

\* C1: a saveNote whose (pattern ignoring case, matchType) is held by a
\* stored note with another id returns success=false, error='duplicate' and
\* that note's id, and the notes store is the same before and after.
C1_DuplicateRejected ==
    [][(/\ saves' = saves + 1
        /\ call'.op = "saveNote"
        /\ SameKeyOthers(notes, call'.id, call'.pattern, call'.matchType)
              # {})
       => /\ ret'.success = FALSE
          /\ ret'.error = "duplicate"
          /\ ret'.existingNoteId \in
                SameKeyOthers(notes, call'.id, call'.pattern,
                              call'.matchType)
          /\ notes' = notes]_vars

\* A save of "A" with another id was turned down as a duplicate of a note
\* stored under "a".
C1_Witness ==
    /\ call.op = "saveNote"
    /\ call.pattern = <<"A">>
    /\ call.id # NoId
    /\ ret.error = "duplicate"
    /\ ret.existingNoteId \in DOMAIN notes
    /\ ret.existingNoteId # call.id
    /\ notes[ret.existingNoteId].pattern = <<"a">>

\* C2: no two stored notes with different ids have the same (lowercased
\* pattern, matchType) pair.
C2_UniquePatternMatchType ==
    \A i, j \in DOMAIN notes :
        i # j => <<toLowerCase(notes[i].pattern), notes[i].matchType>>
                   # <<toLowerCase(notes[j].pattern), notes[j].matchType>>

\* A second note has been saved under the pattern of the first, typed in
\* the other case, with another matchType.
C2_Witness ==
    /\ Cardinality(DOMAIN notes) = 2
    /\ \A i, j \in DOMAIN notes : notes[i].pattern = notes[j].pattern
    /\ \E i, j \in DOMAIN notes :
          notes[i].originalEmail # notes[j].originalEmail
    /\ call.op = "saveNote"
    /\ call.id = NoId
    /\ ret.success

\* C7: a save never changes the createdAt of a note that stays in the store,
\* nor its originalEmail when it had one.
C7_CreatedAtOriginalEmailKept ==
    [][\A i \in (DOMAIN notes) \cap (DOMAIN notes') :
          /\ notes'[i].createdAt = notes[i].createdAt
          /\ notes[i].originalEmail # NoEmail
                => notes'[i].originalEmail = notes[i].originalEmail]_vars

\* A note was updated at a later reading of the clock, with another pattern
\* and with an originalEmail, and still carries the originalEmail of its
\* first save.
C7_Witness ==
    /\ call.op = "saveNote"
    /\ call.id \in DOMAIN notes
    /\ call.originalEmail # NoEmail
    /\ ret.success
    /\ notes[call.id].updatedAt > notes[call.id].createdAt
    /\ notes[call.id].pattern = <<"a", "b">>
    /\ notes[call.id].originalEmail = <<"a">>

Rank(matchType) ==
    CASE matchType = "exact" -> 1
      [] matchType = "startsWith" -> 2
      [] matchType = "endsWith" -> 3
      [] matchType = "contains" -> 4
      [] OTHER -> 5

RankSorted(found) ==
    \A i, j \in 1..Len(found) :
        i < j => Rank(found[i].matchType) <= Rank(found[j].matchType)

\* C8: for every email the list of findNotesByEmail has exact matches before
\* startsWith, before endsWith, before contains matches, and findNoteByEmail
\* gives its first element, or nothing when the list is empty.
C8_PriorityOrder ==
    /\ \A email \in Emails :
          LET found == findNotesByEmail(notes, email)
          IN  /\ RankSorted(found)
              /\ findNoteByEmail(notes, email)
                    = IF Len(found) = 0 THEN {} ELSE {found[1]}
    /\ call.op = "findNotesByEmail" => RankSorted(ret.found)
    /\ call.op = "findNoteByEmail" =>
          ret.found = LET found == findNotesByEmail(notes, call.email)
                      IN  IF Len(found) = 0 THEN << >> ELSE <<found[1]>>

\* findNotesByEmail returned two notes of different matchType whose order is
\* the reverse of their key order.
C8_Witness ==
    /\ call.op = "findNotesByEmail"
    /\ Len(ret.found) = 2
    /\ ret.found[1].id > ret.found[2].id
    /\ Rank(ret.found[1].matchType) < Rank(ret.found[2].matchType)

\* C9: every stored note's pattern equals its own lowercase form.
C9_PatternLowercase ==
    \A i \in DOMAIN notes : notes[i].pattern = toLowerCase(notes[i].pattern)

\* A note typed as "Ab" is stored under "ab".
C9_Witness ==
    /\ call.op = "saveNote"
    /\ call.pattern = <<"A", "b">>
    /\ ret.success
    /\ ret.noteId \in DOMAIN notes
    /\ notes[ret.noteId].pattern = <<"a", "b">>

\* C10: deleteNoteByEmail removes the first element of findNotesByEmail and
\* nothing else; without a match the store stays as it is; it returns
\* success either way.
C10_DeleteByEmailFrame ==
    [][(clock' = clock /\ call'.op = "deleteNoteByEmail") =>
          LET found == findNotesByEmail(notes, call'.email)
          IN  /\ ret'.success
              /\ IF Len(found) = 0
                 THEN notes' = notes
                 ELSE /\ DOMAIN notes' = (DOMAIN notes) \ {found[1].id}
                      /\ \A i \in DOMAIN notes' : notes'[i] = notes[i]]_vars

\* deleteNoteByEmail has removed a note and a note matching the same email
\* is still stored.
C10_Witness ==
    /\ call.op = "deleteNoteByEmail"
    /\ Len(findNotesByEmail(notes, call.email)) > 0


(* ======================= properties: migrations ======================== *)
Range(seq) == {seq[i] : i \in 1..Len(seq)}

\* C3: a runPending called after a successful runPending, with nothing
\* registered in between, invokes no up, writes no applied-record and
\* returns success with applied = []; and no runPending invokes the up of a
\* migration that had an applied-record when the call computed its pending
\* list.
C3_SecondRunNoOp ==
    \A r \in Runners :
        run[r].op = "runPending" =>
            /\ run[r].startedQuiet =>
                  /\ run[r].pc = "done"
                  /\ run[r].success
                  /\ run[r].applied = << >>
                  /\ run[r].errors = << >>
                  /\ run[r].upOrder = << >>
            /\ Range(run[r].upOrder) \cap run[r].startApplied = {}

\* A second runPending has returned at once although two migrations are
\* registered, both with an applied-record.
C3_Witness ==
    \E r \in Runners :
        /\ run[r].op = "runPending"
        /\ run[r].startedQuiet
        /\ run[r].pc = "done"
        /\ Len(migrations) >= 2
        /\ RegisteredIds \subseteq DOMAIN migStore

\* C4: when runPending returns because the up of m threw, m has no
\* applied-record, no migration ordered after m had its up invoked, the
\* migrations applied by this call and before it have their records, and the
\* summary has success = false and one error, naming m.
C4_UpThrowsHalts ==
    [][\A r \in Runners :
          (/\ run[r].op = "runPending"
           /\ ~Returned(r)
           /\ run'[r].pc = "done"
           /\ run'[r].failedAt = "up")
          => LET m == run'[r].pending[run'[r].idx].id
             IN  /\ m \notin DOMAIN migStore'
                 /\ \A k \in 1..Len(run'[r].pending) :
                       localeCompare(m, run'[r].pending[k].id) < 0
                          => run'[r].pending[k].id
                                \notin Range(run'[r].upOrder)
                 /\ Range(run'[r].applied) \subseteq DOMAIN migStore'
                 /\ run'[r].startApplied \subseteq DOMAIN migStore'
                 /\ run'[r].success = FALSE
                 /\ run'[r].errors = <<[id |-> m]>>]_vars

\* A runPending has stopped at a throwing up after applying one migration
\* and with one more pending.
C4_Witness ==
    \E r \in Runners :
        /\ run[r].op = "runPending"
        /\ run[r].pc = "done"
        /\ run[r].failedAt = "up"
        /\ Len(run[r].applied) = 1
        /\ run[r].idx = 2
        /\ Len(run[r].pending) = 3

\* C5: a runPending invokes the ups in strictly ascending id order, and while
\* the up of a pending migration runs the one before it in the pending list
\* has its applied-record.
C5_AscendingOrder ==
    \A r \in Runners :
        run[r].op = "runPending" =>
            /\ \A i, j \in 1..Len(run[r].upOrder) :
                  i < j => localeCompare(run[r].upOrder[i],
                                         run[r].upOrder[j]) < 0
            /\ (run[r].pc = "up" /\ run[r].idx > 1)
                  => run[r].pending[run[r].idx - 1].id \in DOMAIN migStore

\* Three migrations registered in descending order; the up of the third is
\* running.
C5_Witness ==
    \E r \in Runners :
        /\ run[r].pc = "up"
        /\ Len(run[r].upOrder) = 3
        /\ Len(registered) = 3
        /\ localeCompare(registered[1], registered[2]) > 0
        /\ localeCompare(registered[2], registered[3]) > 0

\* C6: whatever crashes or failed writes happen, runPending never invokes
\* the up of a migration whose up has already run to completion (and was not
\* undone by a down), so that no up completes a second time.
C6_UpAtMostOnce ==
    /\ \A m \in MigIds : effect[m] <= 1
    /\ \A r \in Runners :
          run[r].pc = "up" => effect[Current(r).id] = 0

\* A rollbackLast call that has returned without removing a record.
RollbackFailed(r) ==
    /\ run[r].op = "rollbackLast"
    /\ run[r].pc = "done"
    /\ \/ run[r].error \in {"not found", "no rollback function"}
       \/ run[r].failedAt = "down"

\* C11: rollbackLast removes an applied-record only after down has completed:
\* when the last-applied migration is not registered, has no down, or its
\* down throws, the call returns success false, rolledBack null and an error
\* message, the migrations store is as it was when the call started, and in
\* the first two cases no down was invoked.
C11_RollbackFailureKeepsRecord ==
    \A r \in Runners :
        /\ RollbackFailed(r) =>
              /\ ~run[r].success
              /\ run[r].rolledBack = NoMigration
              /\ run[r].error # ""
              /\ migStore = run[r].startStore
              /\ run[r].target \in DOMAIN migStore
              /\ run[r].failedAt # "down" => ~run[r].downCalled
        /\ (run[r].op = "rollbackLast" /\ migStore # run[r].startStore) =>
              /\ run[r].downCalled
              /\ run[r].success
              /\ effect[run[r].target] = 0

\* The down of the last-applied migration threw while a record of another
\* migration was in the store as well.
C11_Witness ==
    \E r \in Runners :
        /\ RollbackFailed(r)
        /\ run[r].failedAt = "down"
        /\ Cardinality(DOMAIN migStore) >= 2

\* C12: rollbackLast targets the migration whose applied-record was written
\* most recently, also when the records were written within one clock
\* reading (equal appliedAt): after m1 then m2 were applied, m2 is the one
\* rolled back.
C12_TargetsLastWritten ==
    \A r \in Runners :
        (/\ run[r].op = "rollbackLast"
         /\ run[r].target # NoMigration
         /\ ~run[r].success) =>
            run[r].target = written[Len(written)]

\* C13: rollbackLast on an empty migrations store returns success true and
\* rolledBack null, invokes no down and changes neither the store, the
\* registered list nor what the migrations did.
C13_EmptyStoreRollback ==
    [][\A r \in Runners :
        (/\ DOMAIN migStore = {}
         /\ runs' = runs + 1
         /\ run'[r].op = "rollbackLast") =>
            /\ run'[r].pc = "done"
            /\ run'[r].success
            /\ run'[r].rolledBack = NoMigration
            /\ run'[r].error = ""
            /\ ~run'[r].downCalled
            /\ UNCHANGED <<migStore, migrations, effect, written, notes>>]_vars

\* rollbackLast has returned on an empty store while migrations were
\* registered.
C13_Witness ==
    \E r \in Runners :
        /\ run[r].op = "rollbackLast"
        /\ run[r].pc = "done"
        /\ run[r].success
        /\ run[r].rolledBack = NoMigration
        /\ run[r].startStore = << >>
        /\ migStore = << >>
        /\ Len(migrations) >= 2

(* ------------------------ claims about templates ----------------------- *)
\* The strings of the persisted template list.
PersistedTemplates == Range(adapterGetTemplates(templates))

Occurrences(list, x) == Cardinality({i \in 1..Len(list) : list[i] = x})

\* C14: the provider's default templates are never written to the persisted
\* list: getTemplates on an empty persisted list returns the provider's
\* list without a write, and after any sequence of getTemplates,
\* addTemplate, updateTemplate and deleteTemplate calls the persisted list
\* holds only strings the caller passed as arguments.
C14_DefaultsNeverPersisted ==
    /\ (/\ tcall.op = "getTemplates"
        /\ adapterGetTemplates(tret.persisted) = << >>
        /\ provider # {}) =>
           /\ tret.templates = DefaultTemplates
           /\ ~tret.wrote
           /\ templates = tret.persisted
    /\ PersistedTemplates \subseteq passed

\* C15: addTemplate(t) with t already in the list getTemplates returns does
\* not write, returns that list unchanged, and getTemplates afterwards
\* returns the same list, in which t appears once.
C15_AddExistingIsNoOp ==
    (tcall.op = "addTemplate"
        /\ arrayIncludes(tret.current, tcall.template)) =>
       /\ ~tret.wrote
       /\ templates = tret.persisted
       /\ tret.templates = tret.current
       /\ getTemplates(templates, provider) = tret.current
       /\ Occurrences(getTemplates(templates, provider), tcall.template) = 1

\* C16: starting from an empty template store, after any sequence of
\* addTemplate, updateTemplate and deleteTemplate calls no two elements of
\* the persisted list are the same string.
C16_NoDuplicateTemplates ==
    LET list == adapterGetTemplates(templates)
    IN  \A i, j \in 1..Len(list) : list[i] = list[j] => i = j

\* C17: updateTemplate and deleteTemplate with an index below 0 or not
\* below the length of the current list do not write and return success
\* true with the unchanged list.
C17_OutOfRangeIsNoOp ==
    (/\ tcall.op \in {"updateTemplate", "deleteTemplate"}
     /\ (tcall.index < 0 \/ tcall.index >= Len(tret.current))) =>
        /\ ~tret.wrote
        /\ templates = tret.persisted
        /\ tret.success
        /\ tret.templates = tret.current
        /\ getTemplates(templates, provider) = tret.current

\* updateTemplate was called with the index just past the end of a
\* persisted list of two.
C17_Witness ==
    /\ tcall.op = "updateTemplate"
    /\ Len(adapterGetTemplates(templates)) = 2
    /\ tcall.index = 2
    /\ tret.success

\* The list without its element at index (counted from 0).
RemoveAt(list, index) ==
    SubSeq(list, 1, index) \o SubSeq(list, index + 2, Len(list))

\* deleteTemplate was called with a valid index on a persisted non-empty
\* list.
DeletedFromPersisted ==
    /\ tcall.op = "deleteTemplate"
    /\ adapterGetTemplates(tret.persisted) # << >>
    /\ InRange(tcall.index, adapterGetTemplates(tret.persisted))

\* C29 as stated: for a persisted non-empty list L and a valid index i,
\* getTemplates after deleteTemplate(i) returns L without its i-th element,
\* the empty list included.
C29_DeleteThenGet ==
    DeletedFromPersisted =>
        getTemplates(templates, provider) =
            RemoveAt(adapterGetTemplates(tret.persisted), tcall.index)

\* C29, amended: getTemplates after deleteTemplate(i) returns L without its
\* i-th element, except that when this leaves the list empty and a
\* default-templates provider is set it returns the provider's defaults.
C29_DeleteThenGetOrDefaults ==
    DeletedFromPersisted =>
        LET rest == RemoveAt(adapterGetTemplates(tret.persisted), tcall.index)
        IN  /\ adapterGetTemplates(templates) = rest
            /\ getTemplates(templates, provider) =
                  IF rest = << >> /\ provider # {}
                  THEN DefaultTemplates ELSE rest

\* The only template of a persisted list was deleted while a provider is
\* set.
C29_Witness ==
    /\ DeletedFromPersisted
    /\ Len(adapterGetTemplates(tret.persisted)) = 1
    /\ provider # {}
    /\ tret.wrote
    /\ getTemplates(templates, provider) = DefaultTemplates

(* --------------------- claims about validatePattern -------------------- *)
IsPrefix(p, s) == Len(p) <= Len(s) /\ SubSeq(s, 1, Len(p)) = p
IsSuffix(p, s) ==
    Len(p) <= Len(s) /\ SubSeq(s, Len(s) - Len(p) + 1, Len(s)) = p
IsSubstring(p, s) ==
    \E i \in 1..(Len(s) + 1) : \E j \in (i - 1)..Len(s) : SubSeq(s, i, j) = p

\* C18: validatePattern compares case-insensitively: equality for exact,
\* prefix for startsWith, suffix for endsWith, substring for contains,
\* false for any other matchType; a call leaves every store as it was.
C18_ValidatePatternMeaning ==
    [][vp' # vp =>
        LET e == toLowerCase(vp'.email)
            p == toLowerCase(vp'.pattern)
        IN  /\ vp'.result =
                  CASE vp'.matchType = "exact" -> e = p
                    [] vp'.matchType = "startsWith" -> IsPrefix(p, e)
                    [] vp'.matchType = "endsWith" -> IsSuffix(p, e)
                    [] vp'.matchType = "contains" -> IsSubstring(p, e)
                    [] OTHER -> FALSE
            /\ UNCHANGED <<notes, templates, settings, migStore>>]_vars

\* A pattern in upper case was found inside an email in mixed case of which
\* it is not a part letter for letter.
C18_Witness ==
    /\ vp.matchType = "contains"
    /\ vp.result
    /\ vp.pattern # toLowerCase(vp.pattern)
    /\ vp.email # toLowerCase(vp.email)
    /\ ~IsSubstring(vp.pattern, vp.email)
    /\ Len(vp.pattern) < Len(vp.email)

(* ------------------------ claims about settings ------------------------ *)
\* C19: with no other settings call in progress, setSetting(k, v) leaves a
\* map in which k has the value v and every other key is as before the
\* call; getSetting(k, d) returns the stored value of k when k is in the
\* map and d when it is not.
C19_SetGetSetting ==
    \A c \in SeqSettingCallers :
        LET map == adapterGetSettings(settings)
            before == scall[c].before
            key == scall[c].key
        IN  /\ (scall[c].op = "setSetting" /\ scall[c].pc = "done") =>
                  /\ scall[c].success
                  /\ key \in DOMAIN map
                  /\ map[key] = scall[c].value
                  /\ \A k \in Keys \ {key} :
                        /\ k \in DOMAIN map <=> k \in DOMAIN before
                        /\ k \in DOMAIN map => map[k] = before[k]
            /\ (scall[c].op = "getSetting" /\ scall[c].pc = "done") =>
                  /\ settings \in {{}, {before}}
                  /\ key \in DOMAIN before => scall[c].result = before[key]
                  /\ key \notin DOMAIN before =>
                        scall[c].result = scall[c].value

\* setSetting changed the value of one key while the map held another key.
C19_Witness ==
    \E c \in SeqSettingCallers :
        /\ scall[c].op = "setSetting"
        /\ scall[c].pc = "done"
        /\ DOMAIN scall[c].before = Keys
        /\ scall[c].before[scall[c].key] # scall[c].value

(* ------------------- claims about the duplicate check ------------------ *)
\* C20: saveNote lowercases the pattern before the duplicate check: the
\* pattern it hands to adapter.findDuplicate is the pattern in lower case,
\* whatever case the caller wrote it in.
C20_QueryIsLowercased ==
    call.op = "saveNote" => ret.queried = toLowerCase(call.pattern)

(* --------------------- claims about the order of notes ----------------- *)
\* C21: among the notes of one matchType that match an email,
\* findNotesByEmail returns them in the order in which they were first
\* inserted, whatever their ids are: a note never comes before one of the
\* same matchType that was inserted at an earlier reading of the clock
\* (createdAt is the time at which the stored note was first inserted).
C21_InsertionOrderWithinTier ==
    \A email \in Emails :
        LET found == findNotesByEmail(notes, email)
        IN  \A i, j \in 1..Len(found) :
                (i < j /\ found[i].matchType = found[j].matchType) =>
                    found[i].createdAt <= found[j].createdAt

(* --------------------- claims about overlapping calls ------------------ *)
SameKey(c, d) ==
    /\ toLowerCase(saving[c].pattern) = toLowerCase(saving[d].pattern)
    /\ saving[c].matchType = saving[d].matchType

\* C22: saveNote is not atomic: two overlapping calls without id and with
\* the same (pattern, matchType) that both passed the duplicate check both
\* go on to adapter.saveNote: nothing looks for a duplicate a second time,
\* and once both have returned both writes were issued for the same key.
C22_BothWritesIssued ==
    \A c, d \in SaveCallers :
        (/\ c # d
         /\ saving[c].id = NoId /\ saving[d].id = NoId
         /\ SameKey(c, d)
         /\ saving[c].passed /\ saving[d].passed) =>
            /\ saving[c].pc \in {"write", "done"}
            /\ saving[c].pc = "done" => saving[c].issued

\* Both calls have returned after issuing their writes for one key.
C22_Witness ==
    \E c, d \in SaveCallers :
        /\ c # d
        /\ saving[c].id = NoId /\ saving[d].id = NoId
        /\ SameKey(c, d)
        /\ saving[c].pc = "done" /\ saving[d].pc = "done"
        /\ saving[c].passed /\ saving[d].passed
        /\ saving[c].issued /\ saving[d].issued
        /\ saving[c].toSave.id # saving[d].toSave.id

\* C23: setSetting is not atomic across overlapping callers: when two calls
\* on different keys have both read the settings map before either wrote,
\* the map stored once both have returned lacks one of the two updates.
C23_LostUpdate ==
    \A c, d \in SettingCallers :
        (/\ c # d
         /\ scall[c].op = "setSetting" /\ scall[d].op = "setSetting"
         /\ scall[c].pc = "done" /\ scall[d].pc = "done"
         /\ scall[c].key # scall[d].key
         /\ scall[c].key \notin DOMAIN scall[d].before
         /\ scall[d].key \notin DOMAIN scall[c].before) =>
            LET map == adapterGetSettings(settings)
            IN  ~(scall[c].key \in DOMAIN map /\ scall[d].key \in DOMAIN map)

\* Both calls returned success and the stored map holds only the key of one
\* of them.
C23_Witness ==
    \E c, d \in SettingCallers :
        /\ c # d
        /\ scall[c].op = "setSetting" /\ scall[d].op = "setSetting"
        /\ scall[c].pc = "done" /\ scall[d].pc = "done"
        /\ scall[c].success /\ scall[d].success
        /\ scall[c].key # scall[d].key
        /\ scall[c].before = NoSettings /\ scall[d].before = NoSettings
        /\ DOMAIN adapterGetSettings(settings) = {scall[d].key}

(* ------------------------ claims about saveNote ------------------------ *)
\* C24: a note can be edited in place: saveNote with the id of a stored
\* note and that note's own (pattern, matchType) is not rejected, returns
\* success with that id and leaves the number of notes as it was; an id
\* is generated only when the caller gives none, and the number of notes
\* then grows by exactly one.
C24_EditInPlace ==
    [][(saves' = saves + 1 /\ call'.op = "saveNote") =>
        LET id == call'.id
            own == /\ id \in DOMAIN notes
                   /\ notes[id].pattern = toLowerCase(call'.pattern)
                   /\ notes[id].matchType = call'.matchType
        IN  /\ (id # NoId /\ own) =>
                  /\ ret'.success
                  /\ ret'.error = ""
                  /\ ret'.noteId = id
                  /\ DOMAIN notes' = DOMAIN notes
                  /\ notes'[id].note = call'.note
            /\ (id # NoId /\ ret'.success) => ret'.noteId = id
            /\ (id = NoId /\ ret'.success) =>
                  /\ ret'.noteId \notin DOMAIN notes
                  /\ DOMAIN notes' = DOMAIN notes \cup {ret'.noteId}
                  /\ Cardinality(DOMAIN notes') =
                        Cardinality(DOMAIN notes) + 1]_vars

\* A stored note was saved again under its id and its own pattern, typed
\* in another case.
C24_Witness ==
    /\ call.op = "saveNote"
    /\ call.id # NoId
    /\ ret.success
    /\ ret.noteId = call.id
    /\ call.pattern # toLowerCase(call.pattern)
    /\ \E e \in ret.existing :
          /\ e.pattern = toLowerCase(call.pattern)
          /\ e.matchType = call.matchType
    /\ DOMAIN notes = {call.id}

\* C25: a successful saveNote stores as originalEmail the one of the
\* existing note with the given id when there is one, otherwise the one the
\* caller gave when it is not empty, otherwise the pattern as the caller
\* wrote it; updatedAt is the time of the save, and createdAt is the time of
\* the save only when no existing note supplied one.
C25_OriginalEmailAndTimes ==
    [][(saves' = saves + 1 /\ call'.op = "saveNote" /\ ret'.success) =>
        LET saved == notes'[ret'.noteId]
            kept == {e \in ret'.existing : e.originalEmail # NoEmail}
        IN  /\ ret'.existing =
                  IF call'.id # NoId /\ call'.id \in DOMAIN notes
                  THEN {notes[call'.id]} ELSE {}
            /\ kept # {} =>
                  \A e \in kept : saved.originalEmail = e.originalEmail
            /\ (kept = {} /\ call'.originalEmail # NoEmail) =>
                  saved.originalEmail = call'.originalEmail
            /\ (kept = {} /\ call'.originalEmail = NoEmail) =>
                  saved.originalEmail = call'.pattern
            /\ saved.updatedAt = clock
            /\ ret'.existing = {} => saved.createdAt = clock
            /\ \A e \in ret'.existing : saved.createdAt = e.createdAt]_vars

\* A note first saved without an originalEmail under a pattern in upper
\* case was saved again later with an originalEmail: it kept the pattern as
\* it was first written and its createdAt.
C25_Witness ==
    /\ call.op = "saveNote"
    /\ ret.success
    /\ ret.existing # {}
    /\ call.originalEmail # NoEmail
    /\ notes[ret.noteId].originalEmail # call.originalEmail
    /\ notes[ret.noteId].originalEmail
          # toLowerCase(notes[ret.noteId].originalEmail)
    /\ notes[ret.noteId].createdAt < notes[ret.noteId].updatedAt

(* ------------------ claims about the applied migrations ---------------- *)
\* C26: with a fixed list of registered migrations, after any sequence of
\* runPending and rollbackLast calls, throwing ups and downs included, the
\* migrations with an applied-record are a prefix of the registered list in
\* id order: none is recorded while one with a lower id is not.
C26_AppliedIsPrefix ==
    \A i, j \in 1..Len(migrations) :
        (i < j /\ isApplied(migStore, migrations[j].id)) =>
            isApplied(migStore, migrations[i].id)

\* C27: when two runPending calls overlap, no migration's up is executed by
\* both calls.
C27_NoUpByBothCalls ==
    \A r, q \in Runners :
        (r # q /\ run[r].op = "runPending" /\ run[q].op = "runPending") =>
            Range(run[r].upOrder) \cap Range(run[q].upOrder) = {}

\* The call of runPending that follows a successful rollbackLast of a
\* migration.
AfterRollback(r) ==
    run[r].op = "runPending" /\ run[r].prevRolledBack # NoMigration

PendingIds(r) == {run[r].pending[i].id : i \in 1..Len(run[r].pending)}

ValidFor(email) ==
    {notes[i] : i \in {k \in DOMAIN notes :
        validatePattern(email, notes[k].pattern, notes[k].matchType)}}

\* C30: findNotesByEmail returns exactly the stored notes n for which
\* validatePattern(email, n.pattern, n.matchType) is true, each of them once,
\* and never a note whose matchType is not one of the four known values.
C30_FindIsValidatePattern ==
    call.op = "findNotesByEmail" =>
        /\ Range(ret.found) = ValidFor(call.email)
        /\ \A i, j \in 1..Len(ret.found) :
              i # j => ret.found[i] # ret.found[j]
        /\ \A i \in 1..Len(ret.found) :
              ret.found[i].matchType \in Range(priorities)

\* findNotesByEmail returned one of two stored notes; the other has the
\* matchType "regex" and a pattern that the email contains.
C30_Witness ==
    /\ call.op = "findNotesByEmail"
    /\ Len(ret.found) = 1
    /\ \E i \in DOMAIN notes :
          /\ notes[i].matchType = "regex"
          /\ IsSubstring(notes[i].pattern, toLowerCase(call.email))

====
